---------------------------- MODULE Spec2Model ----------------------------
(***************************************************************************)
(* Session orchestration of the airport-assistant demo applications.       *)
(*                                                                         *)
(* Two web applications are modelled, selected by the variable app:        *)
(*   "langchain": src/langchain_tools_demo/main.py with its orchestrator   *)
(*                LangChainToolsOrchestrator (process-wide _user_sessions) *)
(*   "vertexai" : src/vertexai_function_calling_demo/main.py (process-wide *)
(*                chat_assistants)                                         *)
(*                                                                         *)
(* A request is a coroutine.  It runs without interruption from one        *)
(* suspension point to the next; the suspension points are the awaits of   *)
(* calls that leave the repository (the LLM call of an agent, the close of *)
(* an aiohttp client, the read of a form body, the construction of a chat  *)
(* assistant).  Awaits of coroutines of the repository that contain no     *)
(* await of their own (get_connector, create_client_session,               *)
(* initialize_tools) never yield to the event loop and are not suspension  *)
(* points.                                                                 *)
(*                                                                         *)
(* The browser session is cookie-carried (starlette SessionMiddleware):    *)
(* request.session is decoded from the browser's cookie when the request   *)
(* arrives and encoded back into the cookie when an HTTP response          *)
(* (a normal one or an HTTPException) is sent.  An exception that is not   *)
(* an HTTPException leaves the handler uncaught and the cookie untouched.  *)
(*                                                                         *)
(* The model starts from a constructed application (init_app has returned) *)
(* with an empty session map; the module-level BASE_HISTORY of the         *)
(* langchain main.py, which no handler reads, is not part of it.           *)
(***************************************************************************)
EXTENDS Integers, Sequences, FiniteSets, Bags, TLC

\* ------------------------------------------------------------------ bounds
\* Browsers (cookie jars) talking to the process.
MaxBrowsers == 2
\* Requests that may be in flight at the same time.
MaxInflight == 2
\* Requests admitted over one run of the process.
MaxRequests == 3

Browsers == 1..MaxBrowsers
Reqs == 1..MaxInflight

\* ------------------------------------------------------------ request inputs
\* Bodies of POST /chat: the empty prompt and one user query.
Prompts == {"", "q"}
\* Outputs an agent invocation may produce.
Outputs == {"a"}
\* The credential field of the POST /login/google form ("None": absent).
Credentials == {"None", "tok"}

VARIABLES
    app,            \* which application the process runs
    phase,          \* "running" | "stopped" (after the lifespan's shutdown part)
    cookie,         \* browser -> its session cookie (a dict)
    pc,             \* request slot -> position of the handler coroutine
    req,            \* request slot -> the request and the handler's locals
    nreq,           \* requests admitted so far
    next_uuid,      \* the identifiers uuid.uuid4() has handed out are 1..next_uuid-1
    agents,         \* every agent instance ever constructed, by instance number
    _user_sessions, \* LangChainToolsOrchestrator._user_sessions: uuid -> instance
    chat_assistants,\* vertexai llm.chat_assistants: uuid -> instance
    connector,      \* LangChainToolsOrchestrator.connector: 0 (None) or a connector
    connectors,     \* number of TCPConnector objects constructed
    removed,        \* instances deleted from the map by a reset
    last,           \* the response most recently sent
    closed_connectors \* the TCPConnector objects that have been closed

\* The agent's tools (demo/langchain_tools_demo/tools.py), one client.
VARIABLES
    BASE_URL,       \* tools.BASE_URL, a string (sequence of characters)
    CREDENTIALS,    \* tools.CREDENTIALS: "None" or the cached credentials
    headers,        \* client.headers, the default headers of the tools' client
    tool,           \* "idle", or the tool suspended in "await client.get(...)"
    targs,          \* the arguments of the latest tool call, in order
    sent,           \* the latest request handed to client.get
    response_json,  \* the list the latest response decoded to
    tool_output     \* what the latest tool call returned to the agent

tvars == <<BASE_URL, CREDENTIALS, headers, tool, targs, sent, response_json, tool_output>>

\* The product datastore (extension_service/datastore/providers/alloydb.py).
VARIABLES
    products,           \* table products: the set of product_id (PRIMARY KEY)
    product_embeddings, \* table product_embeddings: the bag of its rows
    query,              \* the arguments of the latest similarity search
    vector_matches,     \* the rows the CTE of the latest search selected
    results             \* the product records the latest search returned

dvars == <<products, product_embeddings, query, vector_matches, results>>

\* One invocation of a session's agent (UserAgent.invoke).
VARIABLES
    agent_pc,           \* where the invocation stands
    iterations,         \* tool-selection iterations completed in it
    intermediate_steps, \* the tools it has run, in order
    agent_response      \* how it ended: "none", an output, or an error

avars == <<agent_pc, iterations, intermediate_steps, agent_response>>

\* One call of LangChainToolsOrchestrator.parse_messages.
VARIABLES
    session_history,  \* its argument datas, a list of session turns
    parsed_messages   \* whether it was called, and its return value messages

pvars == <<session_history, parsed_messages>>

webvars == <<app, phase, cookie, pc, req, nreq, next_uuid, agents, _user_sessions,
             chat_assistants, connector, connectors, removed, last,
             closed_connectors>>

vars == <<app, phase, cookie, pc, req, nreq, next_uuid, agents, _user_sessions,
          chat_assistants, connector, connectors, removed, last,
          closed_connectors, tvars, dvars, avars, pvars>>

\* ------------------------------------------------------------------- values
\* A dict with no key: request.session after clear(), a map with no entry.
EmptyDict == [k \in {} |-> 0]

\* d with key k deleted.
Del(d, k) == [x \in (DOMAIN d) \ {k} |-> d[x]]

\* d with d[k] = v stored (overwriting).
Put(d, k, v) == [x \in (DOMAIN d) \cup {k} |-> IF x = k THEN v ELSE d[x]]

\* langchain: the greeting turn, as stored in session["history"].
BASE_HISTORY == [type |-> "ai", content |-> "greeting"]

\* A chat turn as the langchain session stores it.
Turn_mut(type, content) == [type |-> "ai", content |-> content]

Turn(type, content) == [type |-> type, content |-> content]

\* A HumanMessage / AIMessage of the agent's memory.
Message_mut(role, content) == [role |-> "human", content |-> content]

Message(role, content) == [role |-> role, content |-> content]

\* LangChainToolsOrchestrator.parse_messages: session turns to messages; a turn
\* whose type is neither "human" nor "ai" is skipped.
RECURSIVE parse_messages(_)
parse_messages(datas) ==
    IF datas = <<>> THEN <<>>
    ELSE LET data == Head(datas)
             rest == parse_messages(Tail(datas))
         IN  IF data.type = "human" THEN <<Message("human", data.content)>> \o rest
             ELSE IF data.type = "ai" THEN <<Message("ai", data.content)>> \o rest
             ELSE rest

NoReq == [kind |-> "none", browser |-> 0, session |-> EmptyDict, prompt |-> "",
          credential |-> "None", referer |-> FALSE, user_session |-> 0,
          outcome |-> "none"]

NoResponse == [kind |-> "none", status |-> 0, exc |-> "none", detail |-> ""]

Idle(r) == pc[r] = "idle"

\* ------------------------------------------------------ the tools' values
\* The default of BASE_URL, "http://127.0.0.1:8080", character by character.
DefaultUrl ==
    <<"h", "t", "t", "p", ":", "/", "/", "1", "2", "7", ".", "0", ".", "0", ".",
      "1", ":", "8", "0", "8", "0">>

\* The values the environment variable BASE_URL is given: the default, an
\* https service, an https service whose path quotes a plain-http address, and
\* a plain-http address written in capitals.
BaseUrls ==
    { DefaultUrl,
      <<"h", "t", "t", "p", "s", ":", "/", "/", "a", ".", "a", "p", "p">>,
      <<"h", "t", "t", "p", "s", ":", "/", "/", "a", ".", "a", "p", "p", "/",
        "h", "t", "t", "p", ":", "/", "/", "b">>,
      <<"H", "T", "T", "P", ":", "/", "/", "a">> }

\* needle in hay, Python's substring test on strings.
Contains(needle, hay) ==
    \E i \in 1..(Len(hay) - Len(needle) + 1) :
        SubSeq(hay, i, i + Len(needle) - 1) = needle

\* No request sent yet; no tool result yet.
NoRequest == [tool |-> "none", path |-> "none", params |-> <<>>, headers |-> EmptyDict]

NoOutput == [kind |-> "none", text |-> "", n |-> 0, shown |-> <<>>, sep |-> ""]

\* No similarity search made yet.
NoQuery == [threshold |-> 0, top_k |-> 0, outcome |-> "none"]

\* The tools module as imported, before any tool call.
ToolsIdle ==
    /\ BASE_URL = DefaultUrl
    /\ CREDENTIALS = "None"
    /\ headers = EmptyDict
    /\ tool = "idle"
    /\ targs = <<>>
    /\ sent = NoRequest
    /\ response_json = <<>>
    /\ tool_output = NoOutput

\* The datastore with both tables created and empty.
DatastoreEmpty ==
    /\ products = {}
    /\ product_embeddings = EmptyBag
    /\ query = NoQuery
    /\ vector_matches = EmptyBag
    /\ results = {}

\* No agent invocation under way.
AgentIdle ==
    /\ agent_pc = "idle"
    /\ iterations = 0
    /\ intermediate_steps = <<>>
    /\ agent_response = "none"

\* parse_messages not called.
ParseIdle ==
    /\ session_history = <<>>
    /\ parsed_messages = [called |-> FALSE, messages |-> <<>>]

\* --------------------------------------------------------------------- Init
\* The web application after construction, no request served yet.
AppInit ==
    /\ closed_connectors = {}
    /\ phase = "running"
    /\ cookie = [b \in Browsers |-> EmptyDict]
    /\ pc = [r \in Reqs |-> "idle"]
    /\ req = [r \in Reqs |-> NoReq]
    /\ nreq = 0
    /\ next_uuid = 1
    /\ agents = <<>>
    /\ _user_sessions = EmptyDict
    /\ chat_assistants = EmptyDict
    /\ connector = 0
    /\ connectors = 0
    /\ removed = {}
    /\ last = NoResponse

Init ==
    /\ app \in {"langchain", "vertexai"}
    /\ ToolsIdle
    /\ DatastoreEmpty
    /\ AgentIdle
    /\ ParseIdle
    /\ closed_connectors = {}
    /\ phase = "running"
    /\ cookie = [b \in Browsers |-> EmptyDict]
    /\ pc = [r \in Reqs |-> "idle"]
    /\ req = [r \in Reqs |-> NoReq]
    /\ nreq = 0
    /\ next_uuid = 1
    /\ agents = <<>>
    /\ _user_sessions = EmptyDict
    /\ chat_assistants = EmptyDict
    /\ connector = 0
    /\ connectors = 0
    /\ removed = {}
    /\ last = NoResponse

\* ------------------------------------------------------- the web framework
\* A request arrives in the lowest free slot: request.session is decoded from
\* the browser's cookie, and the handler coroutine is scheduled.
Receive(r, b, kind, prompt, credential, referer) ==
    /\ phase = "running"
    /\ Idle(r)
    /\ \A q \in Reqs : q < r => ~Idle(q)
    /\ nreq < MaxRequests
    /\ nreq' = nreq + 1
    /\ pc' = [pc EXCEPT ![r] = kind]
    /\ req' = [req EXCEPT ![r] = [kind |-> kind, browser |-> b, session |-> cookie[b],
                                  prompt |-> prompt, credential |-> credential,
                                  referer |-> referer, user_session |-> 0,
                                  outcome |-> "none"]]
    /\ UNCHANGED <<tvars, dvars, avars, pvars, closed_connectors, app,
                   phase, cookie, next_uuid, agents, _user_sessions,
                   chat_assistants, connector, connectors, removed, last>>

\* The handler of slot r ends with an HTTP response (a return value or an
\* HTTPException): the session is written back to the browser's cookie.
Respond(r, session, status, detail, exc) ==
    /\ cookie' = [cookie EXCEPT ![req[r].browser] = session]
    /\ pc' = [pc EXCEPT ![r] = "idle"]
    /\ req' = [req EXCEPT ![r] = NoReq]
    /\ last' = [kind |-> req[r].kind, status |-> status, exc |-> exc,
                detail |-> detail]

\* raise HTTPException(status_code=status, detail=detail)
HTTPException(r, session, status, detail) ==
    Respond(r, session, status, detail, "HTTPException")

\* The handler of slot r ends with an exception that is no HTTPException: it
\* leaves the application uncaught (the server answers 500 "Internal Server
\* Error" outside the session middleware, so the cookie keeps its value).
Uncaught(r, exc) ==
    /\ pc' = [pc EXCEPT ![r] = "idle"]
    /\ req' = [req EXCEPT ![r] = NoReq]
    /\ last' = [kind |-> req[r].kind, status |-> 500, exc |-> exc,
                detail |-> "Internal Server Error"]
    /\ UNCHANGED cookie

\* ---------------------------------------------------- langchain: orchestrator
\* uuid.uuid4(): an identifier no earlier call returned.
uuid4_mut == IF next_uuid > 1 THEN next_uuid - 1 ELSE next_uuid

uuid4 == next_uuid

\* user_session_exist
user_session_exist(uuid) == uuid \in DOMAIN _user_sessions

\* get_user_session: self._user_sessions[uuid] (a KeyError when absent, which
\* the callers below test for with user_session_exist before they use it).
get_user_session(uuid) == _user_sessions[uuid]

\* get_connector: the connector attribute after the call.
get_connector == IF connector = 0 THEN connectors + 1 ELSE connector

\* create_client_session: a fresh open ClientSession on the shared connector.
create_client_session_mut ==
    [closed |-> FALSE, user_id_token |-> "None", connector |-> get_connector,
     connector_owner |-> TRUE]

create_client_session ==
    [closed |-> FALSE, user_id_token |-> "None", connector |-> get_connector,
     connector_owner |-> FALSE]

\* UserAgent.initialize_agent: the instance bound to session id, with the
\* parsed history as its memory.
initialize_agent(client, id, history) ==
    [id |-> id, memory |-> history, client |-> client]

\* user_session_create, the session part: uuid and history are set when the
\* session does not carry them.
create_session(session) ==
    LET s1 == IF "uuid" \in DOMAIN session THEN session
              ELSE Put(session, "uuid", uuid4)
    IN  IF "history" \in DOMAIN s1 THEN s1
        ELSE Put(s1, "history", <<BASE_HISTORY>>)

\* user_session_create, the map part: self._user_sessions[id] = agent.
create_store(sessions, id, a) == Put(sessions, id, a)

\* user_session_create: one uninterrupted step (none of its awaits suspends).
user_session_create(session) ==
    LET s == create_session(session)
        id == s["uuid"]
        history == parse_messages(s["history"])
        client == create_client_session
        a == Len(agents) + 1
    IN  /\ next_uuid' = IF "uuid" \in DOMAIN session THEN next_uuid ELSE next_uuid + 1
        /\ connector' = get_connector
        /\ connectors' = IF connector = 0 THEN connectors + 1 ELSE connectors
        /\ agents' = Append(agents, initialize_agent(client, id, history))
        /\ _user_sessions' = create_store(_user_sessions, id, a)

\* UserAgent.close: await self.client.close()
close(a) == [agents EXCEPT ![a].client.closed = TRUE]

\* ClientSession.close() closes the connector too when the session owns it
\* (connector_owner); the connectors closed after agent a's client is closed.
close_connector(a) ==
    IF agents[a].client.connector_owner
    THEN closed_connectors \cup {agents[a].client.connector}
    ELSE closed_connectors

\* user_session_reset after the await: del self._user_sessions[uuid]
reset_del_mut(sessions, uuid) == sessions

reset_del(sessions, uuid) == Del(sessions, uuid)

\* request.session.clear()
session_clear(session) == EmptyDict

\* -------------------------------------------------------- langchain: routes
\* GET / and POST /
GET_index(r, b) == Receive(r, b, "index", "", "None", FALSE)

index(r) ==
    /\ app = "langchain" /\ pc[r] = "index"
    /\ user_session_create(req[r].session)
    /\ Respond(r, create_session(req[r].session), 200, "index.html", "none")
    /\ UNCHANGED <<tvars, dvars, avars, pvars, closed_connectors, app,
                   phase, nreq, chat_assistants, removed>>

\* POST /chat
POST_chat(r, b, prompt) == Receive(r, b, "chat", prompt, "None", FALSE)

\* chat_handler, the two tests that open it: the detail of the HTTPException
\* they raise, or "ok".
chat_check_mut(prompt, session) ==
    IF prompt = "" THEN "Error: No user query" ELSE "ok"

chat_check_mut2(prompt, session) ==
    IF "uuid" \in DOMAIN session THEN "ok"
    ELSE "Error: Invoke index handler before start chatting"

chat_check(prompt, session) ==
    IF prompt = "" THEN "Error: No user query"
    ELSE IF "uuid" \notin DOMAIN session
         THEN "Error: Invoke index handler before start chatting"
         ELSE "ok"

\* chat_handler up to "await self.agent.ainvoke(...)" in UserAgent.invoke
chat_handler(r) ==
    /\ app = "langchain" /\ pc[r] = "chat"
    /\ LET session == req[r].session
           prompt == req[r].prompt
       IN  IF chat_check(prompt, session) # "ok"
           THEN HTTPException(r, session, 400, chat_check(prompt, session))
           ELSE IF "history" \notin DOMAIN session
                   \/ ~user_session_exist(session["uuid"])
           THEN Uncaught(r, "KeyError")
           ELSE /\ pc' = [pc EXCEPT ![r] = "chat_invoke"]
                /\ req' = [req EXCEPT
                      ![r].session["history"] = Append(@, Turn("human", prompt)),
                      ![r].user_session = get_user_session(session["uuid"])]
                /\ UNCHANGED <<cookie, last>>
    /\ UNCHANGED <<tvars, dvars, avars, pvars, closed_connectors, app,
                   phase, nreq, next_uuid, agents, _user_sessions,
                   chat_assistants, connector, connectors, removed>>

\* The agent's memory after a successful run: the framework saves the input
\* and the output of the run to the ConversationBufferMemory.
save_context(memory, prompt, output) ==
    memory \o <<Message("human", prompt), Message("ai", output)>>

\* The awaited agent run ends with an output: the handler becomes runnable.
ainvoke_return(r) ==
    /\ app = "langchain" /\ pc[r] = "chat_invoke"
    /\ \E output \in Outputs :
         /\ agents' = [agents EXCEPT ![req[r].user_session].memory =
                          save_context(@, req[r].prompt, output)]
         /\ req' = [req EXCEPT ![r].outcome = output]
    /\ pc' = [pc EXCEPT ![r] = "chat_resume"]
    /\ UNCHANGED <<tvars, dvars, avars, pvars, closed_connectors, app,
                   phase, cookie, nreq, next_uuid, _user_sessions,
                   chat_assistants, connector, connectors, removed, last>>

\* The awaited agent run ends with an exception.
ainvoke_raise(r) ==
    /\ app = "langchain" /\ pc[r] = "chat_invoke"
    /\ req' = [req EXCEPT ![r].outcome = "raise"]
    /\ pc' = [pc EXCEPT ![r] = "chat_resume"]
    /\ UNCHANGED <<tvars, dvars, avars, pvars, closed_connectors, app,
                   phase, cookie, nreq, next_uuid, agents, _user_sessions,
                   chat_assistants, connector, connectors, removed, last>>

\* UserAgent.invoke after the await: what the exception of the agent run is
\* turned into.
invoke_except_mut == [status |-> 500, exc |-> "Exception", detail |-> "Internal Server Error"]

invoke_except == [status |-> 500, exc |-> "HTTPException", detail |-> "Error invoking agent"]

\* chat_handler after the await: the output is appended to the history, or
\* the exception of the agent run is converted.
chat_resume(r) ==
    /\ app = "langchain" /\ pc[r] = "chat_resume"
    /\ IF req[r].outcome = "raise"
       THEN IF invoke_except.exc = "HTTPException"
            THEN HTTPException(r, req[r].session, invoke_except.status,
                               invoke_except.detail)
            ELSE Uncaught(r, invoke_except.exc)
       ELSE Respond(r, [req[r].session EXCEPT
                          !["history"] = Append(@, Turn("ai", req[r].outcome))],
                    200, req[r].outcome, "none")
    /\ UNCHANGED <<tvars, dvars, avars, pvars, closed_connectors, app,
                   phase, nreq, next_uuid, agents, _user_sessions,
                   chat_assistants, connector, connectors, removed>>

\* POST /reset
POST_reset(r, b) == Receive(r, b, "reset", "", "None", FALSE)

\* reset up to "await user_session.close()" in user_session_reset
reset_mut(r) ==
    /\ app = "langchain" /\ pc[r] = "reset"
    /\ LET session == req[r].session
       IN  IF "uuid" \notin DOMAIN session
           THEN /\ HTTPException(r, session, 400, "No session to reset.")
                /\ UNCHANGED <<agents, closed_connectors>>
           ELSE IF ~user_session_exist(session["uuid"])
           THEN /\ HTTPException(r, session_clear(session), 500,
                                 "Current agent not found")
                /\ UNCHANGED <<agents, closed_connectors>>
           ELSE /\ pc' = [pc EXCEPT ![r] = "reset_close"]
                /\ req' = [req EXCEPT
                      ![r].user_session = get_user_session(session["uuid"])]
                /\ agents' = close(get_user_session(session["uuid"]))
                /\ closed_connectors' = close_connector(get_user_session(session["uuid"]))
                /\ UNCHANGED <<cookie, last>>
    /\ UNCHANGED <<tvars, dvars, avars, pvars, app, phase, nreq, next_uuid,
                   _user_sessions, chat_assistants,
                   connector, connectors, removed>>

reset(r) ==
    /\ app = "langchain" /\ pc[r] = "reset"
    /\ LET session == req[r].session
       IN  IF "uuid" \notin DOMAIN session
           THEN /\ HTTPException(r, session, 400, "No session to reset.")
                /\ UNCHANGED <<agents, closed_connectors>>
           ELSE IF ~user_session_exist(session["uuid"])
           THEN /\ HTTPException(r, session, 500, "Current agent not found")
                /\ UNCHANGED <<agents, closed_connectors>>
           ELSE /\ pc' = [pc EXCEPT ![r] = "reset_close"]
                /\ req' = [req EXCEPT
                      ![r].user_session = get_user_session(session["uuid"])]
                /\ agents' = close(get_user_session(session["uuid"]))
                /\ closed_connectors' = close_connector(get_user_session(session["uuid"]))
                /\ UNCHANGED <<cookie, last>>
    /\ UNCHANGED <<tvars, dvars, avars, pvars, app, phase, nreq, next_uuid,
                   _user_sessions, chat_assistants,
                   connector, connectors, removed>>

\* reset after the await: the del and the session.clear()
reset_resume(r) ==
    /\ app = "langchain" /\ pc[r] = "reset_close"
    /\ LET uuid == req[r].session["uuid"]
       IN  IF ~user_session_exist(uuid)
           THEN /\ Uncaught(r, "KeyError")
                /\ UNCHANGED <<_user_sessions, removed>>
           ELSE /\ _user_sessions' = reset_del(_user_sessions, uuid)
                /\ removed' = removed \cup {get_user_session(uuid)}
                /\ Respond(r, session_clear(req[r].session), 200, "null", "none")
    /\ UNCHANGED <<tvars, dvars, avars, pvars, closed_connectors, app,
                   phase, nreq, next_uuid, agents, chat_assistants,
                   connector, connectors>>

\* POST /login/google
POST_login_google(r, b, credential, referer) ==
    app = "langchain" /\ Receive(r, b, "login", "", credential, referer)

\* set_user_session_header: the credential is attached to the client of the
\* session's agent.
set_user_session_header(uuid, user_id_token) ==
    [agents EXCEPT ![get_user_session(uuid)].client.user_id_token = user_id_token]

\* login_google after "await request.form()"
login_google_mut(r) ==
    /\ app = "langchain" /\ pc[r] = "login"
    /\ LET session == req[r].session
       IN  IF "uuid" \notin DOMAIN session
              \/ ~user_session_exist(session["uuid"])
           THEN /\ Uncaught(r, "KeyError")
                /\ UNCHANGED <<agents>>
           ELSE /\ agents' = set_user_session_header(session["uuid"], req[r].credential)
                /\ IF req[r].referer
                   THEN Respond(r, session, 307, "Referer", "none")
                   ELSE Uncaught(r, "KeyError")
    /\ UNCHANGED <<tvars, dvars, avars, pvars, closed_connectors, app,
                   phase, nreq, next_uuid, _user_sessions, chat_assistants,
                   connector, connectors, removed>>

login_google(r) ==
    /\ app = "langchain" /\ pc[r] = "login"
    /\ LET session == req[r].session
       IN  IF req[r].credential = "None"
           THEN /\ HTTPException(r, session, 401, "No user credentials found")
                /\ UNCHANGED <<agents>>
           ELSE IF "uuid" \notin DOMAIN session
                   \/ ~user_session_exist(session["uuid"])
           THEN /\ Uncaught(r, "KeyError")
                /\ UNCHANGED <<agents>>
           ELSE /\ agents' = set_user_session_header(session["uuid"], req[r].credential)
                /\ IF req[r].referer
                   THEN Respond(r, session, 307, "Referer", "none")
                   ELSE Uncaught(r, "KeyError")
    /\ UNCHANGED <<tvars, dvars, avars, pvars, closed_connectors, app,
                   phase, nreq, next_uuid, _user_sessions, chat_assistants,
                   connector, connectors, removed>>

\* Whether the orchestrator module binds the name asyncio, which close_clients
\* uses: its import block does not.
asyncio_imported == FALSE

\* close_clients: the clients whose close() was started.  The name asyncio is
\* looked up before the first a.close() is evaluated, so with the name unbound
\* the call ends in a NameError and starts none.
close_clients ==
    IF asyncio_imported THEN {_user_sessions[u] : u \in DOMAIN _user_sessions} ELSE {}

\* lifespan after the yield: the server has stopped accepting requests and
\* every request has been answered.
lifespan ==
    /\ app = "langchain" /\ phase = "running"
    /\ \A q \in Reqs : Idle(q)
    /\ phase' = "stopped"
    /\ agents' = [a \in DOMAIN agents |->
                    IF a \in close_clients
                    THEN [agents[a] EXCEPT !.client.closed = TRUE] ELSE agents[a]]
    /\ last' = [kind |-> "shutdown", status |-> 0,
                exc |-> IF asyncio_imported THEN "none" ELSE "NameError",
                detail |-> ""]
    /\ UNCHANGED <<tvars, dvars, avars, pvars, closed_connectors, app,
                   cookie, pc, req, nreq, next_uuid, _user_sessions,
                   chat_assistants, connector, connectors, removed>>

\* ----------------------------------------------------------------- vertexai
\* vertexai: BASE_HISTORY, the greeting stored in session["messages"].
vx_BASE_HISTORY == <<Message("assistant", "How can I help you?")>>

\* llm.init_chat_assistant: a new chat assistant with an open client of its own.
init_chat_assistant(id) ==
    [id |-> id, memory |-> <<>>,
     client |-> [closed |-> FALSE, user_id_token |-> "None", connector |-> 0]]

\* index: the session part (uuid and messages are set together).
vx_create_session(session) ==
    IF "uuid" \in DOMAIN session THEN session
    ELSE Put(Put(session, "uuid", uuid4), "messages", vx_BASE_HISTORY)

\* index: chat_assistants[request.session["uuid"]] = chat_assistant
vx_store(assistants, id, a) == Put(assistants, id, a)

\* index up to "await init_chat_assistant(...)"
vx_index(r) ==
    /\ app = "vertexai" /\ pc[r] = "index"
    /\ LET session == vx_create_session(req[r].session)
       IN  /\ next_uuid' = IF "uuid" \in DOMAIN req[r].session
                           THEN next_uuid ELSE next_uuid + 1
           /\ IF session["uuid"] \in DOMAIN chat_assistants
              THEN Respond(r, session, 200, "index.html", "none")
              ELSE /\ pc' = [pc EXCEPT ![r] = "index_init"]
                   /\ req' = [req EXCEPT ![r].session = session]
                   /\ UNCHANGED <<cookie, last>>
    /\ UNCHANGED <<tvars, dvars, avars, pvars, closed_connectors, app,
                   phase, nreq, agents, _user_sessions, chat_assistants,
                   connector, connectors, removed>>

\* index after the await: the new assistant is stored and the page rendered.
vx_index_resume(r) ==
    /\ app = "vertexai" /\ pc[r] = "index_init"
    /\ LET id == req[r].session["uuid"]
       IN  /\ agents' = Append(agents, init_chat_assistant(id))
           /\ chat_assistants' = vx_store(chat_assistants, id, Len(agents) + 1)
    /\ Respond(r, req[r].session, 200, "index.html", "none")
    /\ UNCHANGED <<tvars, dvars, avars, pvars, closed_connectors, app,
                   phase, nreq, next_uuid, _user_sessions, connector,
                   connectors, removed>>

\* chat_handler up to "await chat_assistant.invoke(prompt)"
vx_chat_handler(r) ==
    /\ app = "vertexai" /\ pc[r] = "chat"
    /\ LET session == req[r].session
           prompt == req[r].prompt
       IN  IF chat_check(prompt, session) # "ok"
           THEN HTTPException(r, session, 400, chat_check(prompt, session))
           ELSE IF "messages" \notin DOMAIN session
                   \/ session["uuid"] \notin DOMAIN chat_assistants
           THEN Uncaught(r, "KeyError")
           ELSE /\ pc' = [pc EXCEPT ![r] = "chat_invoke"]
                /\ req' = [req EXCEPT
                      ![r].session["messages"] = Append(@, Message("user", prompt)),
                      ![r].user_session = chat_assistants[session["uuid"]]]
                /\ UNCHANGED <<cookie, last>>
    /\ UNCHANGED <<tvars, dvars, avars, pvars, closed_connectors, app,
                   phase, nreq, next_uuid, agents, _user_sessions,
                   chat_assistants, connector, connectors, removed>>

\* The awaited chat_assistant.invoke ends with an output or an exception.
vx_invoke_end(r) ==
    /\ app = "vertexai" /\ pc[r] = "chat_invoke"
    /\ \E outcome \in Outputs \cup {"raise"} :
         req' = [req EXCEPT ![r].outcome = outcome]
    /\ pc' = [pc EXCEPT ![r] = "chat_resume"]
    /\ UNCHANGED <<tvars, dvars, avars, pvars, closed_connectors, app,
                   phase, cookie, nreq, next_uuid, agents, _user_sessions,
                   chat_assistants, connector, connectors, removed, last>>

\* chat_handler after the await: the try block's tail or its except clause.
vx_chat_resume(r) ==
    /\ app = "vertexai" /\ pc[r] = "chat_resume"
    /\ IF req[r].outcome = "raise"
       THEN HTTPException(r, req[r].session, 500, "Error invoking agent")
       ELSE Respond(r, [req[r].session EXCEPT
                          !["messages"] = Append(@, Message("assistant", req[r].outcome))],
                    200, req[r].outcome, "none")
    /\ UNCHANGED <<tvars, dvars, avars, pvars, closed_connectors, app,
                   phase, nreq, next_uuid, agents, _user_sessions,
                   chat_assistants, connector, connectors, removed>>

\* reset up to "await chat_assistants[uuid].client.close()"
vx_reset(r) ==
    /\ app = "vertexai" /\ pc[r] = "reset"
    /\ LET session == req[r].session
       IN  IF "uuid" \notin DOMAIN session
           THEN /\ Uncaught(r, "KeyError")
                /\ UNCHANGED <<agents>>
           ELSE IF session["uuid"] \notin DOMAIN chat_assistants
           THEN /\ HTTPException(r, session, 500, "Current agent not found")
                /\ UNCHANGED <<agents>>
           ELSE /\ pc' = [pc EXCEPT ![r] = "reset_close"]
                /\ req' = [req EXCEPT
                      ![r].user_session = chat_assistants[session["uuid"]]]
                /\ agents' = close(chat_assistants[session["uuid"]])
                /\ UNCHANGED <<cookie, last>>
    /\ UNCHANGED <<tvars, dvars, avars, pvars, closed_connectors, app,
                   phase, nreq, next_uuid, _user_sessions, chat_assistants,
                   connector, connectors, removed>>

\* reset after the await: del chat_assistants[uuid] and session.clear()
vx_reset_resume(r) ==
    /\ app = "vertexai" /\ pc[r] = "reset_close"
    /\ LET uuid == req[r].session["uuid"]
       IN  IF uuid \notin DOMAIN chat_assistants
           THEN /\ Uncaught(r, "KeyError")
                /\ UNCHANGED <<chat_assistants, removed>>
           ELSE /\ chat_assistants' = Del(chat_assistants, uuid)
                /\ removed' = removed \cup {chat_assistants[uuid]}
                /\ Respond(r, session_clear(req[r].session), 200, "null", "none")
    /\ UNCHANGED <<tvars, dvars, avars, pvars, closed_connectors, app,
                   phase, nreq, next_uuid, agents, _user_sessions,
                   connector, connectors>>

\* lifespan after the yield: one close task per assistant is created and the
\* gather of the tasks is not awaited, so any of them may or may not have run
\* when the event loop ends.
vx_lifespan ==
    /\ app = "vertexai" /\ phase = "running"
    /\ \A q \in Reqs : Idle(q)
    /\ phase' = "stopped"
    /\ \E ran \in SUBSET {chat_assistants[u] : u \in DOMAIN chat_assistants} :
         agents' = [a \in DOMAIN agents |->
                      IF a \in ran
                      THEN [agents[a] EXCEPT !.client.closed = TRUE] ELSE agents[a]]
    /\ last' = [kind |-> "shutdown", status |-> 0, exc |-> "none", detail |-> ""]
    /\ UNCHANGED <<tvars, dvars, avars, pvars, closed_connectors, app,
                   cookie, pc, req, nreq, next_uuid, _user_sessions,
                   chat_assistants, connector, connectors, removed>>

Next ==
    \/ lifespan
    \/ vx_lifespan
    \/ \E r \in Reqs :
        \/ \E b \in Browsers : GET_index(r, b)
        \/ \E b \in Browsers, prompt \in Prompts : POST_chat(r, b, prompt)
        \/ \E b \in Browsers : POST_reset(r, b)
        \/ \E b \in Browsers, c \in Credentials, ref \in BOOLEAN :
               POST_login_google(r, b, c, ref)
        \/ index(r)
        \/ chat_handler(r)
        \/ ainvoke_return(r)
        \/ ainvoke_raise(r)
        \/ chat_resume(r)
        \/ reset(r)
        \/ reset_resume(r)
        \/ login_google(r)
        \/ vx_index(r)
        \/ vx_index_resume(r)
        \/ vx_chat_handler(r)
        \/ vx_invoke_end(r)
        \/ vx_chat_resume(r)
        \/ vx_reset(r)
        \/ vx_reset_resume(r)

Spec == Init /\ [][Next]_vars

\* ------------------------------------------------------- the agent's tools
\* A dict is kept as the sequence of its <<key, value>> pairs in insertion
\* order. Values a tool parameter can take: None, the empty string, a text.
ArgValues == {"None", "", "SFO"}

\* What google.auth hands back as an identity token.
IdTokens == {"idt"}

\* The results the downstream service lists, and the lists it answers with.
Items == {"x", "y"}

MaxResults == 3

ResponseLists == UNION {[1..n -> Items] : n \in 0..MaxResults}

\* num = 2 in search_airports and list_flights
num == 2

filter_none_values_mut(params) ==
    SelectSeq(params, LAMBDA p : p[2] \notin {"None", ""})

filter_none_values(params) == SelectSeq(params, LAMBDA p : p[2] # "None")

needs_id_token_mut == ~Contains(<<"h", "t", "t", "p">>, BASE_URL)

\* not "http://" in BASE_URL
needs_id_token == ~Contains(<<"h", "t", "t", "p", ":", "/", "/">>, BASE_URL)

\* get_headers: client.headers itself, with the Authorization entry set in it
\* when the base URL asks for an identity token.
get_headers(client_headers, id_token) ==
    IF needs_id_token
    THEN Put(client_headers, "Authorization", <<"Bearer ", id_token>>)
    ELSE client_headers

\* get_id_token: how a call can end. google.auth.default() can fail only while
\* no credentials are cached; the refresh can fail at any time.
get_id_token ==
    IdTokens \cup {"refresh_raise"}
             \cup (IF CREDENTIALS = "None" THEN {"default_raise"} ELSE {})

\* A tool evaluates the arguments of client.get and suspends in it; when
\* get_id_token raises, the tool raises and no request is sent.
client_get(name, path, params, sent_params) ==
    /\ tool = "idle"
    /\ \E id_token \in get_id_token :
         /\ CREDENTIALS' = IF needs_id_token /\ id_token # "default_raise"
                           THEN "cached" ELSE CREDENTIALS
         /\ IF needs_id_token /\ id_token \notin IdTokens
            THEN /\ tool_output' = [NoOutput EXCEPT !.kind = "raise"]
                 /\ UNCHANGED <<headers, tool, targs, sent, response_json>>
            ELSE /\ headers' = get_headers(headers, id_token)
                 /\ sent' = [tool |-> name, path |-> path, params |-> sent_params,
                             headers |-> headers']
                 /\ tool' = name
                 /\ targs' = params
                 /\ response_json' = <<>>
                 /\ tool_output' = NoOutput
    /\ UNCHANGED <<webvars, dvars, avars, pvars, BASE_URL>>

search_airports(country, city, name) ==
    LET params == << <<"country", country>>, <<"city", city>>, <<"name", name>> >>
    IN  client_get("search_airports", "/airports/search", params,
                   filter_none_values(params))

search_flights_by_number(airline, flight_number) ==
    LET params == << <<"airline", airline>>, <<"flight_number", flight_number>> >>
    IN  client_get("search_flights_by_number", "/flights/search", params, params)

list_flights(departure_airport, arrival_airport, date) ==
    LET params == << <<"departure_airport", departure_airport>>,
                     <<"arrival_airport", arrival_airport>>, <<"date", date>> >>
    IN  client_get("list_flights", "/flights/search", params,
                   filter_none_values(params))

search_amenities(q) ==
    LET params == << <<"top_k", "5">>, <<"query", q>> >>
    IN  client_get("search_amenities", "/amenities/search", params, params)

\* The text search_airports makes of the decoded response.
search_airports_text_mut(response) ==
    IF Len(response) < 1
    THEN [kind |-> "text",
          text |-> "There are no airports matching that query. Let the user know there are no results.",
          n |-> 0, shown |-> <<>>, sep |-> ""]
    ELSE IF Len(response) >= num
    THEN [kind |-> "text",
          text |-> "There are {n} airports matching that query. Here are the first {num} results:\n",
          n |-> Len(response), shown |-> SubSeq(response, 1, num), sep |-> " "]
    ELSE [kind |-> "text", text |-> "", n |-> 0, shown |-> response, sep |-> "\n"]

search_airports_text(response) ==
    IF Len(response) < 1
    THEN [kind |-> "text",
          text |-> "There are no airports matching that query. Let the user know there are no results.",
          n |-> 0, shown |-> <<>>, sep |-> ""]
    ELSE IF Len(response) > num
    THEN [kind |-> "text",
          text |-> "There are {n} airports matching that query. Here are the first {num} results:\n",
          n |-> Len(response), shown |-> SubSeq(response, 1, num), sep |-> " "]
    ELSE [kind |-> "text", text |-> "", n |-> 0, shown |-> response, sep |-> "\n"]

\* The text list_flights makes of the decoded response.
list_flights_text(response) ==
    IF Len(response) < 1
    THEN [kind |-> "text",
          text |-> "There are no flights matching that query. Let the user know there are no results.",
          n |-> 0, shown |-> <<>>, sep |-> ""]
    ELSE IF Len(response) > num
    THEN [kind |-> "text",
          text |-> "There are {n} flights matching that query. Here are the first {num} results:\n",
          n |-> Len(response), shown |-> SubSeq(response, 1, num), sep |-> " "]
    ELSE [kind |-> "text", text |-> "", n |-> 0, shown |-> response, sep |-> "\n"]

\* The response arrives and decodes to a list; the tool returns.
tool_return(name, response, result) ==
    /\ tool = name
    /\ tool' = "idle"
    /\ response_json' = response
    /\ tool_output' = result
    /\ UNCHANGED <<webvars, dvars, avars, pvars, BASE_URL, CREDENTIALS, headers, targs, sent>>

search_airports_return(response) ==
    tool_return("search_airports", response, search_airports_text(response))

list_flights_return(response) ==
    tool_return("list_flights", response, list_flights_text(response))

search_flights_by_number_return(response) ==
    tool_return("search_flights_by_number", response,
                [NoOutput EXCEPT !.kind = "json", !.shown = response])

search_amenities_return(response) ==
    tool_return("search_amenities", response,
                [NoOutput EXCEPT !.kind = "json", !.shown = response])

\* raise_for_status=True: an error status makes client.get raise in the tool.
raise_for_status ==
    /\ tool # "idle"
    /\ tool' = "idle"
    /\ tool_output' = [NoOutput EXCEPT !.kind = "raise"]
    /\ UNCHANGED <<webvars, dvars, avars, pvars, BASE_URL, CREDENTIALS, headers, targs, sent,
                   response_json>>

\* The tools of one client, with BASE_URL as the environment set it and the
\* client's headers as the session layer left them.
InitTools ==
    /\ app = "langchain"
    /\ AppInit
    /\ DatastoreEmpty
    /\ AgentIdle
    /\ ParseIdle
    /\ BASE_URL \in BaseUrls
    /\ CREDENTIALS = "None"
    /\ headers \in {EmptyDict, Put(EmptyDict, "User-Id-Token", <<"tok">>)}
    /\ tool = "idle"
    /\ targs = <<>>
    /\ sent = NoRequest
    /\ response_json = <<>>
    /\ tool_output = NoOutput

NextTools ==
    \/ \E country, city, name \in ArgValues : search_airports(country, city, name)
    \/ \E flight_number \in {"888"} : search_flights_by_number("CY", flight_number)
    \/ \E departure_airport, arrival_airport, date \in ArgValues :
           list_flights(departure_airport, arrival_airport, date)
    \/ \E q \in {"coffee"} : search_amenities(q)
    \/ \E response \in ResponseLists : search_airports_return(response)
    \/ \E response \in ResponseLists : list_flights_return(response)
    \/ \E response \in ResponseLists : search_flights_by_number_return(response)
    \/ \E response \in ResponseLists : search_amenities_return(response)
    \/ raise_for_status

SpecTools == InitTools /\ [][NextTools]_vars

\* ------------------------------------------------- the product datastore
\* A row of product_embeddings is [product_id, distance]: distance is what
\* "embedding <=> $1" evaluates to for the query embedding of the searches, a
\* cosine distance, in whole units. The row a search returns for a product
\* (product_name, list_price, description) is stood for by its product_id.
MaxProducts == 2

MaxEmbeddings == 3

MaxTopK == 2

ProductIds == 1..MaxProducts

Distances == {0, 1, 2}

Thresholds == {-1, 0, 1}

\* 1 - (embedding <=> $1) AS similarity
similarity(row) == 1 - row.distance

exceeds_mut(row, similarity_theshold) == similarity(row) >= similarity_theshold

\* WHERE 1 - (embedding <=> $1) > $2
exceeds(row, similarity_theshold) == similarity(row) > similarity_theshold

\* INSERT INTO products: product_id is the PRIMARY KEY.
insert_product(product_id) ==
    /\ query.outcome = "none"
    /\ product_id \notin products
    /\ products' = products \cup {product_id}
    /\ UNCHANGED <<webvars, tvars, avars, pvars, product_embeddings, query, vector_matches, results>>

\* INSERT INTO product_embeddings: product_id REFERENCES products(product_id).
insert_embedding(product_id, distance) ==
    /\ query.outcome = "none"
    /\ product_id \in products
    /\ BagCardinality(product_embeddings) < MaxEmbeddings
    /\ product_embeddings' =
         product_embeddings (+) SetToBag({[product_id |-> product_id,
                                           distance |-> distance]})
    /\ UNCHANGED <<webvars, tvars, avars, pvars, products, query, vector_matches, results>>

\* The rows the WHERE clause of the CTE keeps.
where(similarity_theshold) ==
    [row \in {x \in BagToSet(product_embeddings) : exceeds(x, similarity_theshold)}
       |-> CopiesIn(row, product_embeddings)]

\* ORDER BY similarity DESC LIMIT $3 over the bag kept: any top_k of its rows
\* (all of them if fewer) such that no row left out is more similar than a
\* row taken; rows of equal similarity come in any order.
order_by_limit(kept, top_k) ==
    {taken \in SubBag(kept) :
        /\ BagCardinality(taken) =
             IF BagCardinality(kept) < top_k THEN BagCardinality(kept) ELSE top_k
        /\ \A x \in BagToSet(taken), y \in BagToSet(kept) :
             CopiesIn(y, taken) < CopiesIn(y, kept) => similarity(x) >= similarity(y)}

\* SELECT ... FROM products WHERE product_id IN (SELECT product_id FROM vector_matches)
select_products(matches) ==
    {product_id \in products :
        \E row \in BagToSet(matches) : row.product_id = product_id}

\* semantic_similiarity_search with a query that the database answers; a
\* negative LIMIT is an error of the statement.
semantic_similiarity_search(similarity_theshold, top_k) ==
    /\ IF top_k < 0
       THEN /\ query' = [threshold |-> similarity_theshold, top_k |-> top_k,
                         outcome |-> "raise"]
            /\ vector_matches' = EmptyBag
            /\ results' = {}
       ELSE /\ query' = [threshold |-> similarity_theshold, top_k |-> top_k,
                         outcome |-> "ok"]
            /\ vector_matches' \in order_by_limit(where(similarity_theshold), top_k)
            /\ results' = select_products(vector_matches')
    /\ UNCHANGED <<webvars, tvars, avars, pvars, products, product_embeddings>>

\* timeout=10: the fetch gives up and raises; nothing is returned.
fetch_timeout(similarity_theshold, top_k) ==
    /\ query' = [threshold |-> similarity_theshold, top_k |-> top_k,
                 outcome |-> "raise"]
    /\ vector_matches' = EmptyBag
    /\ results' = {}
    /\ UNCHANGED <<webvars, tvars, avars, pvars, products, product_embeddings>>

InitDatastore ==
    /\ app = "langchain"
    /\ AppInit
    /\ ToolsIdle
    /\ DatastoreEmpty
    /\ AgentIdle
    /\ ParseIdle

NextDatastore ==
    \/ \E product_id \in ProductIds : insert_product(product_id)
    \/ \E product_id \in ProductIds, distance \in Distances :
           insert_embedding(product_id, distance)
    \/ \E similarity_theshold \in Thresholds, top_k \in -1..MaxTopK :
           semantic_similiarity_search(similarity_theshold, top_k)
    \/ \E similarity_theshold \in Thresholds, top_k \in -1..MaxTopK :
           fetch_timeout(similarity_theshold, top_k)

SpecDatastore == InitDatastore /\ [][NextDatastore]_vars

\* ------------------------------------------------------ one agent invocation
\* UserAgent.invoke awaits agent.ainvoke: the executor built by
\* initialize_agent asks the LLM for the next action, runs the tool it names,
\* and repeats; with max_iterations=3 and early_stopping_method="generate" it
\* stops asking after three iterations and has the LLM write a final answer.
\* "_Exception" is the step handle_parsing_errors=True records for an LLM
\* reply that cannot be parsed.
AgentTools ==
    {"Search Airport", "Search Flights By Flight Number", "List Flights",
     "Search Amenities", "_Exception"}

\* max_iterations=3
max_iterations == 3

should_continue_mut(n) == n <= max_iterations

\* The executor goes on while fewer than max_iterations iterations are done.
should_continue(n) == n < max_iterations

\* await self.agent.ainvoke({"input": prompt})
invoke ==
    /\ agent_pc = "idle"
    /\ agent_pc' = "plan"
    /\ iterations' = 0
    /\ intermediate_steps' = <<>>
    /\ agent_response' = "none"
    /\ UNCHANGED <<webvars, tvars, dvars, pvars>>

\* The LLM call returns and names a tool (or cannot be parsed).
plan_action(name) ==
    /\ agent_pc = "plan" /\ should_continue(iterations)
    /\ agent_pc' = "tool"
    /\ intermediate_steps' = Append(intermediate_steps, name)
    /\ UNCHANGED <<webvars, tvars, dvars, pvars, iterations, agent_response>>

\* The LLM call returns the final answer.
plan_finish ==
    /\ agent_pc = "plan" /\ should_continue(iterations)
    /\ agent_pc' = "returned"
    /\ agent_response' = "output"
    /\ UNCHANGED <<webvars, tvars, dvars, pvars, iterations, intermediate_steps>>

\* The tool call returns its observation: one iteration is done.
tool_observation ==
    /\ agent_pc = "tool"
    /\ agent_pc' = "plan"
    /\ iterations' = iterations + 1
    /\ UNCHANGED <<webvars, tvars, dvars, pvars, intermediate_steps, agent_response>>

\* max_iterations reached: early_stopping_method="generate"
early_stopping ==
    /\ agent_pc = "plan" /\ ~should_continue(iterations)
    /\ agent_pc' = "generate"
    /\ UNCHANGED <<webvars, tvars, dvars, pvars, iterations, intermediate_steps,
                   agent_response>>

\* The LLM call that writes the final answer from the steps so far returns.
generate ==
    /\ agent_pc = "generate"
    /\ agent_pc' = "returned"
    /\ agent_response' = "generated"
    /\ UNCHANGED <<webvars, tvars, dvars, pvars, iterations, intermediate_steps>>

\* An LLM or tool call raises: "except Exception as err: raise HTTPException"
agent_except ==
    /\ \/ agent_pc = "plan" /\ should_continue(iterations)
       \/ agent_pc \in {"tool", "generate"}
    /\ agent_pc' = "raised"
    /\ agent_response' = invoke_except.detail
    /\ UNCHANGED <<webvars, tvars, dvars, pvars, iterations, intermediate_steps>>

\* invoke hands the response, or the HTTPException, to its caller.
invoke_end ==
    /\ agent_pc \in {"returned", "raised"}
    /\ agent_pc' = "idle"
    /\ UNCHANGED <<webvars, tvars, dvars, pvars, iterations, intermediate_steps,
                   agent_response>>

InitAgent ==
    /\ app = "langchain"
    /\ AppInit
    /\ ToolsIdle
    /\ DatastoreEmpty
    /\ ParseIdle
    /\ AgentIdle

NextAgent ==
    \/ invoke
    \/ \E name \in AgentTools : plan_action(name)
    \/ plan_finish
    \/ tool_observation
    \/ early_stopping
    \/ generate
    \/ agent_except
    \/ invoke_end

\* Each LLM call and each tool call the executor awaits comes back, and the
\* event loop runs a coroutine that can go on.
LlmReturns == (\E name \in AgentTools : plan_action(name)) \/ plan_finish \/ generate

SpecAgent ==
    /\ InitAgent
    /\ [][NextAgent]_vars
    /\ WF_vars(LlmReturns)
    /\ WF_vars(tool_observation)
    /\ WF_vars(early_stopping)
    /\ WF_vars(invoke_end)

\* ------------------------------------------------------------ parse_messages
\* The lists parse_messages is applied to: turns of type human and ai as the
\* handlers store them, and entries of another type, which carry no content.
MaxHistory == 3

Turns ==
    {Turn(type, content) : type \in {"human", "ai"}, content \in {"q", "a"}}
      \cup {[type |-> "system"]}

Histories == UNION {[1..n -> Turns] : n \in 0..MaxHistory}

\* history = self.parse_messages(session["history"])
parse_history ==
    /\ ~parsed_messages.called
    /\ parsed_messages' = [called |-> TRUE, messages |-> parse_messages(session_history)]
    /\ UNCHANGED <<webvars, tvars, dvars, avars, session_history>>

\* The caller is done with the messages (they went into the agent's memory).
parse_done ==
    /\ parsed_messages.called
    /\ parsed_messages' = [called |-> FALSE, messages |-> <<>>]
    /\ UNCHANGED <<webvars, tvars, dvars, avars, session_history>>

InitParse ==
    /\ app = "langchain"
    /\ AppInit
    /\ ToolsIdle
    /\ DatastoreEmpty
    /\ AgentIdle
    /\ session_history \in Histories
    /\ parsed_messages = [called |-> FALSE, messages |-> <<>>]

NextParse == parse_history \/ parse_done

SpecParse == InitParse /\ [][NextParse]_vars

\* ------------------------------------------------------------------ claims
\* Slot r's handler takes a step.
Steps(r) == pc'[r] # pc[r]

\* Slot r's handler takes its last step: the response is sent.
Completes(r) == pc[r] # "idle" /\ pc'[r] = "idle"

\* The session the request of slot r arrived with carries a uuid.
HasUuid(r) == "uuid" \in DOMAIN req[r].session

\* C1: in the langchain app, when a POST /reset completes successfully, the
\* session's identifier is absent from _user_sessions and the session that
\* goes back to the browser is empty (no uuid, no history).
C1_ResetRemovesSession ==
    [][\A r \in Reqs :
         (app = "langchain" /\ req[r].kind = "reset" /\ Completes(r)
          /\ last'.status = 200)
         => /\ req[r].session["uuid"] \notin DOMAIN _user_sessions'
            /\ cookie'[req[r].browser] = EmptyDict]_vars

\* A langchain reset has completed successfully.
C1_Witness ==
    /\ app = "langchain"
    /\ last = [kind |-> "reset", status |-> 200, exc |-> "none", detail |-> "null"]
    /\ Len(agents) > 0

\* C2: a POST /chat with a non-empty prompt whose session carries no uuid is
\* answered with HTTP 400 by the handler's first step: the handler never
\* reaches the agent invocation, the session goes back as it arrived, and the
\* session map and every agent instance are unchanged.
C2_ChatWithoutSession ==
    [][\A r \in Reqs :
         (req[r].kind = "chat" /\ pc[r] = "chat" /\ req[r].prompt # ""
          /\ ~HasUuid(r) /\ Steps(r))
         => /\ pc'[r] = "idle"
            /\ last' = [kind |-> "chat", status |-> 400, exc |-> "HTTPException",
                        detail |-> "Error: Invoke index handler before start chatting"]
            /\ cookie'[req[r].browser] = req[r].session
            /\ _user_sessions' = _user_sessions
            /\ chat_assistants' = chat_assistants
            /\ agents' = agents]_vars

\* A chat without a prior index visit has been answered, while another
\* session is registered in the map.
C2_Witness ==
    /\ last.kind = "chat" /\ last.status = 400
    /\ last.detail = "Error: Invoke index handler before start chatting"
    /\ DOMAIN _user_sessions \cup DOMAIN chat_assistants # {}

\* C3: every agent instance in the langchain session map has an open HTTP
\* client, and so has every agent instance a chat request has looked up and
\* is invoking.
C3_MappedAgentsHaveOpenClient ==
    app = "langchain" =>
        /\ \A u \in DOMAIN _user_sessions : ~agents[_user_sessions[u]].client.closed
        /\ \A r \in Reqs : pc[r] = "chat_invoke"
                           => ~agents[req[r].user_session].client.closed

\* C4: every agent instance ever created is in exactly one of the session map
\* and the set of instances removed by reset, and no two created instances are
\* bound to the same session identifier.
C4_AgentsPartitioned ==
    app = "langchain" =>
        LET mapped == {_user_sessions[u] : u \in DOMAIN _user_sessions}
        IN  /\ \A a \in DOMAIN agents : (a \in mapped) # (a \in removed)
            /\ \A a1, a2 \in DOMAIN agents : a1 # a2 => agents[a1].id # agents[a2].id

\* C5: in the langchain app every /chat, /reset or /login/google request that
\* fails ends in an HTTPException, never in another exception.
C5_FailuresAreHTTPExceptions ==
    (app = "langchain" /\ last.kind \in {"chat", "reset", "login"}
     /\ last.status >= 400)
    => last.exc = "HTTPException"

\* C6: no handler is suspended between its read of a session's map entry and
\* its delete of that entry with the entry changed under it: a reset that
\* waits to delete still finds, under its uuid, the instance it looked up.
C6_NoStaleRead ==
    app = "langchain" =>
        \A r \in Reqs : pc[r] = "reset_close"
            => /\ user_session_exist(req[r].session["uuid"])
               /\ get_user_session(req[r].session["uuid"]) = req[r].user_session

\* C7: when the agent run of a chat raises, the chat is answered with a 500
\* HTTPException whose detail reports the agent invocation failure, and the
\* session map and the agent instances are unchanged.
C7_AgentFailureIs500 ==
    [][\A r \in Reqs :
         (pc[r] = "chat_resume" /\ req[r].outcome = "raise" /\ Steps(r))
         => /\ pc'[r] = "idle"
            /\ last' = [kind |-> "chat", status |-> 500, exc |-> "HTTPException",
                        detail |-> "Error invoking agent"]
            /\ _user_sessions' = _user_sessions
            /\ chat_assistants' = chat_assistants
            /\ agents' = agents]_vars

\* A chat whose agent run raised has been answered and the session's agent is
\* still registered with an open client.
C7_Witness ==
    /\ last = [kind |-> "chat", status |-> 500, exc |-> "HTTPException",
               detail |-> "Error invoking agent"]
    /\ \E b \in Browsers :
         /\ "uuid" \in DOMAIN cookie[b]
         /\ LET m == IF app = "langchain" THEN _user_sessions ELSE chat_assistants
            IN  /\ cookie[b]["uuid"] \in DOMAIN m
                /\ ~agents[m[cookie[b]["uuid"]]].client.closed

\* C8: in the langchain app, when an index request of a session without uuid
\* completes, the session holds a uuid that was in the map for no session
\* before, its history is the single greeting turn, and the map holds an
\* agent instance under that uuid.
C8_IndexCreatesSession ==
    [][\A r \in Reqs :
         (app = "langchain" /\ req[r].kind = "index" /\ ~HasUuid(r) /\ Completes(r))
         => LET s == cookie'[req[r].browser]
            IN  /\ DOMAIN s = {"uuid", "history"}
                /\ s["uuid"] \notin DOMAIN _user_sessions
                /\ s["history"] = <<BASE_HISTORY>>
                /\ s["uuid"] \in DOMAIN _user_sessions'
                /\ _user_sessions'[s["uuid"]] \in DOMAIN agents'
                /\ agents'[_user_sessions'[s["uuid"]]].id = s["uuid"]
                /\ \A u \in DOMAIN _user_sessions :
                     u \in DOMAIN _user_sessions' /\ _user_sessions'[u] = _user_sessions[u]
       ]_vars

\* Two sessions have been created by first page views: each browser holds its
\* own uuid and both are in the map.
C8_Witness ==
    /\ app = "langchain"
    /\ last.kind = "index" /\ last.status = 200
    /\ \A b \in {1, 2} : DOMAIN cookie[b] = {"uuid", "history"}
                          /\ cookie[b]["history"] = <<BASE_HISTORY>>
                          /\ cookie[b]["uuid"] \in DOMAIN _user_sessions
    /\ cookie[1]["uuid"] # cookie[2]["uuid"]

\* C9: in the langchain app, an index request of a session whose uuid is in
\* the map leaves the map and the agent instances unchanged and sends the
\* session back as it arrived.
C9_IndexOfKnownSessionChangesNothing ==
    [][\A r \in Reqs :
         (app = "langchain" /\ req[r].kind = "index" /\ HasUuid(r) /\ Completes(r)
          /\ user_session_exist(req[r].session["uuid"]))
         => /\ _user_sessions' = _user_sessions
            /\ agents' = agents
            /\ cookie'[req[r].browser] = req[r].session]_vars

\* C10: once the langchain shutdown handler has finished, every agent that was
\* in the map has a closed client and the map holds no entries.
C10_ShutdownDestroysAgents ==
    (app = "langchain" /\ phase = "stopped")
    => /\ \A u \in DOMAIN _user_sessions : agents[_user_sessions[u]].client.closed
       /\ _user_sessions = EmptyDict

\* The session map of the running application.
ActiveMap == IF app = "langchain" THEN _user_sessions ELSE chat_assistants

\* The key of the session's turns and the shape of a turn, per application.
HistoryKey == IF app = "langchain" THEN "history" ELSE "messages"

HumanTurn(prompt) ==
    IF app = "langchain" THEN [type |-> "human", content |-> prompt]
    ELSE [role |-> "user", content |-> prompt]

AssistantTurn(output) ==
    IF app = "langchain" THEN [type |-> "ai", content |-> output]
    ELSE [role |-> "assistant", content |-> output]

\* C14: a langchain reset whose session has no uuid is answered 400, one whose
\* uuid is not in the map is answered 500 "Current agent not found"; in both
\* cases no client is closed, the map is unchanged and the session goes back
\* to the browser as it arrived (not cleared).
C14_ResetErrorPaths ==
    [][\A r \in Reqs :
         (app = "langchain" /\ pc[r] = "reset" /\ Steps(r)
          /\ (~HasUuid(r) \/ ~user_session_exist(req[r].session["uuid"])))
         => /\ pc'[r] = "idle"
            /\ last' = IF ~HasUuid(r)
                       THEN [kind |-> "reset", status |-> 400, exc |-> "HTTPException",
                             detail |-> "No session to reset."]
                       ELSE [kind |-> "reset", status |-> 500, exc |-> "HTTPException",
                             detail |-> "Current agent not found"]
            /\ agents' = agents
            /\ _user_sessions' = _user_sessions
            /\ cookie'[req[r].browser] = req[r].session]_vars

\* A reset of a session whose uuid had left the map was answered 500, and the
\* browser still holds the session.
C14_Witness ==
    /\ app = "langchain"
    /\ last = [kind |-> "reset", status |-> 500, exc |-> "HTTPException",
               detail |-> "Current agent not found"]
    /\ \E b \in Browsers : /\ "uuid" \in DOMAIN cookie[b]
                           /\ ~user_session_exist(cookie[b]["uuid"])
                           /\ agents[1].client.closed

\* C15: a vertexai reset whose session has no uuid is answered with an HTTP
\* error (an HTTPException with a detail) and changes neither chat_assistants
\* nor the session.
C15_VxResetWithoutSession ==
    [][\A r \in Reqs :
         (app = "vertexai" /\ pc[r] = "reset" /\ ~HasUuid(r) /\ Steps(r))
         => /\ last'.kind = "reset" /\ last'.status >= 400
            /\ last'.exc = "HTTPException"
            /\ chat_assistants' = chat_assistants
            /\ cookie'[req[r].browser] = req[r].session]_vars

\* C16: a chat with an empty prompt is answered 400 "No user query" by the
\* handler's first step, with or without uuid: no turn is appended, the
\* handler never reaches the invocation, and map and agents are unchanged.
C16_EmptyPrompt ==
    [][\A r \in Reqs :
         (pc[r] = "chat" /\ req[r].prompt = "" /\ Steps(r))
         => /\ pc'[r] = "idle"
            /\ last' = [kind |-> "chat", status |-> 400, exc |-> "HTTPException",
                        detail |-> "Error: No user query"]
            /\ cookie'[req[r].browser] = req[r].session
            /\ _user_sessions' = _user_sessions
            /\ chat_assistants' = chat_assistants
            /\ agents' = agents]_vars

\* An empty prompt was answered while every browser holds a registered session.
C16_Witness ==
    /\ last = [kind |-> "chat", status |-> 400, exc |-> "HTTPException",
               detail |-> "Error: No user query"]
    /\ \A b \in {1, 2} : /\ "uuid" \in DOMAIN cookie[b]
                          /\ cookie[b]["uuid"] \in DOMAIN ActiveMap

\* C17: a successful chat extends the history of its session by two turns: the
\* human turn with the prompt before the agent is invoked, nothing while the
\* agent runs, and the assistant turn with the output when it returns; the
\* earlier turns keep their content and order.
C17_ChatAppendsTwoTurns ==
    [][\A r \in Reqs :
         /\ (pc[r] = "chat" /\ pc'[r] = "chat_invoke")
            => req'[r].session =
                 [req[r].session EXCEPT
                    ![HistoryKey] = Append(@, HumanTurn(req[r].prompt))]
         /\ (pc[r] = "chat_invoke" /\ Steps(r))
            => req'[r].session = req[r].session
         /\ (pc[r] = "chat_resume" /\ Steps(r) /\ req[r].outcome # "raise")
            => LET h == req[r].session[HistoryKey]
               IN  /\ last'.status = 200
                   /\ h[Len(h)] = HumanTurn(req[r].prompt)
                   /\ cookie'[req[r].browser] =
                        [req[r].session EXCEPT
                           ![HistoryKey] = Append(@, AssistantTurn(req[r].outcome))]
      ]_vars

\* A chat succeeded: a browser holds greeting, human turn, assistant turn.
C17_Witness ==
    /\ last.kind = "chat" /\ last.status = 200
    /\ \E b \in Browsers :
         /\ HistoryKey \in DOMAIN cookie[b]
         /\ Len(cookie[b][HistoryKey]) = 3
         /\ cookie[b][HistoryKey][2] = HumanTurn("q")
         /\ cookie[b][HistoryKey][3] = AssistantTurn("a")

\* The identifier the request of slot r acts for: the uuid of its session, or
\* the one uuid4 hands out next when the session has none yet.
SessionId(r) == IF HasUuid(r) THEN req[r].session["uuid"] ELSE next_uuid

\* A step of slot r leaves every other identifier's map entry and agent alone.
MapFrame(r) ==
    \A u \in DOMAIN ActiveMap :
        u # SessionId(r)
        => /\ u \in DOMAIN ActiveMap'
           /\ ActiveMap'[u] = ActiveMap[u]
           /\ agents'[ActiveMap[u]] = agents[ActiveMap[u]]

\* C18 as stated: a step of a request with identifier A leaves the map entry,
\* the agent and the stored session (uuid and history) of every other
\* identifier B unchanged.
C18_OtherSessionsUntouched ==
    [][\A r \in Reqs :
         (pc[r] # "idle" /\ Steps(r))
         => /\ MapFrame(r)
            /\ \A b \in Browsers :
                 ("uuid" \in DOMAIN cookie[b] /\ cookie[b]["uuid"] # SessionId(r))
                 => cookie'[b] = cookie[b]]_vars

Keys(d) == {d[i][1] : i \in DOMAIN d}

\* C11: the query parameters search_airports and list_flights send are exactly
\* the tool arguments whose value is not None, each with its value, in the
\* arguments' order and once each; filtering them again changes nothing.
C11_ParamsAreNonNullArgs ==
    sent.tool \in {"search_airports", "list_flights"}
    => /\ Keys(sent.params) = {targs[i][1] : i \in {j \in DOMAIN targs : targs[j][2] # "None"}}
       /\ \A i \in DOMAIN sent.params : \E j \in DOMAIN targs : targs[j] = sent.params[i]
       /\ \A i, j \in DOMAIN sent.params :
            sent.params[i][1] = sent.params[j][1] => i = j
       /\ filter_none_values(sent.params) = sent.params

\* An airport search was sent with one argument None, one empty and one text:
\* two parameters went out, the empty string among them.
C11_Witness ==
    /\ sent.tool = "search_airports"
    /\ targs = << <<"country", "">>, <<"city", "None">>, <<"name", "SFO">> >>
    /\ sent.params = << <<"country", "">>, <<"name", "SFO">> >>

\* C12: a request a tool has sent carries an Authorization bearer token if and
\* only if BASE_URL does not contain "http://"; when BASE_URL contains it, the
\* headers sent are the client's headers and hold no Authorization entry.
C12_AuthorizationIffNotPlainHttp ==
    sent # NoRequest
    => /\ ("Authorization" \in DOMAIN sent.headers)
            <=> ~Contains(<<"h", "t", "t", "p", ":", "/", "/">>, BASE_URL)
       /\ "Authorization" \in DOMAIN sent.headers
            => /\ sent.headers["Authorization"][1] = "Bearer "
               /\ sent.headers["Authorization"][2] \in IdTokens
       /\ sent.headers = headers
       /\ Contains(<<"h", "t", "t", "p", ":", "/", "/">>, BASE_URL)
            => sent.headers \in {EmptyDict, Put(EmptyDict, "User-Id-Token", <<"tok">>)}

\* A request went to an https service with the bearer token next to the
\* header the session layer had set.
C12_Witness ==
    /\ BASE_URL[5] = "s"
    /\ sent.tool = "list_flights"
    /\ DOMAIN sent.headers = {"Authorization", "User-Id-Token"}

\* The smaller of two numbers.
Min(a, b) == IF a < b THEN a ELSE b

C13_SearchReturnsTopKAboveThreshold ==
    query.outcome = "ok"
    => /\ Cardinality(results) <= query.top_k
       /\ \A product_id \in results :
            \E row \in BagToSet(product_embeddings) :
               /\ row.product_id = product_id
               /\ 1 - row.distance > query.threshold
       /\ \A product_id \in products :
            (\A row \in BagToSet(product_embeddings) :
                row.product_id = product_id => 1 - row.distance <= query.threshold)
            => product_id \notin results

\* A search with limit 1 returned one of two products above the threshold,
\* while a third row sits exactly at the threshold.
C13_Witness ==
    /\ query.outcome = "ok" /\ query.top_k = 1 /\ query.threshold = 0
    /\ Cardinality(results) = 1
    /\ \E r1, r2, r3 \in BagToSet(product_embeddings) :
         /\ r1.product_id # r2.product_id
         /\ r1.distance = 0 /\ r2.distance = 0
         /\ r3.distance = 1

\* C21: the langchain orchestrator constructs at most one TCP connector, every
\* client session ever built is on that connector and does not own it, and no
\* close of a client has closed it.
C21_OneSharedConnector ==
    app = "langchain" =>
        /\ connectors <= 1
        /\ (connector = 0) <=> (agents = <<>>)
        /\ \A a \in DOMAIN agents : agents[a].client.connector = connector
        /\ closed_connectors = {}

\* Two sessions were created on the one connector; one has been reset and its
\* client closed, the other is in the map with an open client.
C21_Witness ==
    /\ app = "langchain"
    /\ connectors = 1
    /\ \E a \in removed : agents[a].client.closed
    /\ \E u \in DOMAIN _user_sessions :
         /\ ~agents[_user_sessions[u]].client.closed
         /\ agents[_user_sessions[u]].client.connector = connector

\* C22: an agent instance that is not reachable from the langchain session map
\* has a closed client.
C22_UnreachableAgentsAreClosed ==
    app = "langchain" =>
        \A a \in DOMAIN agents :
            (\A u \in DOMAIN _user_sessions : _user_sessions[u] # a)
            => agents[a].client.closed

\* C23: when no request is in flight, the uuid of every browser's session is
\* in the active session map.
C23_QuiescentCookiesAreMapped ==
    (\A r \in Reqs : Idle(r))
    => \A b \in Browsers :
         "uuid" \in DOMAIN cookie[b] => cookie[b]["uuid"] \in DOMAIN ActiveMap

\* C24: a successful chat that completes right after another successful chat
\* response, for the session the browser holds, finds the stored history and
\* extends it by its two turns; nothing stored is lost.
C24_NoLostUpdate ==
    [][\A r \in Reqs :
         LET b == req[r].browser
         IN  (/\ pc[r] = "chat_resume" /\ Steps(r) /\ req[r].outcome # "raise"
              /\ last.kind = "chat" /\ last.status = 200
              /\ "uuid" \in DOMAIN cookie[b]
              /\ cookie[b]["uuid"] = req[r].session["uuid"])
             => /\ Len(cookie'[b][HistoryKey]) = Len(cookie[b][HistoryKey]) + 2
                /\ SubSeq(cookie'[b][HistoryKey], 1, Len(cookie[b][HistoryKey]))
                     = cookie[b][HistoryKey]]_vars

\* C25: when no request is in flight, every stored history is the greeting
\* followed by human and assistant turns in alternation, ending with an
\* assistant turn.
C25_QuiescentHistoryAlternates ==
    (\A r \in Reqs : Idle(r))
    => \A b \in Browsers :
         HistoryKey \in DOMAIN cookie[b]
         => LET h == cookie[b][HistoryKey]
            IN  /\ Len(h) % 2 = 1
                /\ \A i \in 2..Len(h) :
                     IF i % 2 = 0
                     THEN \E prompt \in Prompts : h[i] = HumanTurn(prompt)
                     ELSE \E o \in Outputs : h[i] = AssistantTurn(o)

\* C26: when no request is in flight, the memory of the agent mapped under a
\* browser's uuid holds, in order, the turns of that browser's history.
C26_MemoryTracksHistory ==
    (app = "langchain" /\ \A r \in Reqs : Idle(r))
    => \A b \in Browsers :
         ("uuid" \in DOMAIN cookie[b] /\ user_session_exist(cookie[b]["uuid"]))
         => agents[get_user_session(cookie[b]["uuid"])].memory
              = parse_messages(cookie[b]["history"])

\* C27: an agent invocation never completes more than 3 tool-selection
\* iterations, and, every LLM and tool call returning, an invocation under way
\* always comes to its end, with an answer or with an error.
C27_InvocationTerminates ==
    /\ [](iterations <= 3)
    /\ (agent_pc \in {"plan", "tool", "generate"})
         ~> (agent_pc \in {"returned", "raised"})

\* An invocation used all three iterations and ended with the generated answer.
C27_Witness ==
    /\ agent_pc = "returned"
    /\ iterations = 3
    /\ Len(intermediate_steps) = 3
    /\ agent_response = "generated"

\* C28: parse_messages returns, in order, one message for every entry of type
\* human or ai, with the entry's role and content, and nothing for an entry of
\* another type; a list of human and ai entries only keeps its length.
C28_ParsePreservesHistory ==
    parsed_messages.called
    => LET out == parsed_messages.messages
           keep == {i \in DOMAIN session_history :
                      session_history[i].type \in {"human", "ai"}}
           \* the position in the output of the kept entry at position i
           pos(i) == Cardinality({j \in keep : j <= i})
       IN  /\ Len(out) = Cardinality(keep)
           /\ \A i \in keep : /\ out[pos(i)].role = session_history[i].type
                              /\ out[pos(i)].content = session_history[i].content
           /\ keep = DOMAIN session_history
                => /\ Len(out) = Len(session_history)
                   /\ \A i \in DOMAIN out :
                        /\ out[i].role = session_history[i].type
                        /\ out[i].content = session_history[i].content

\* A history with an entry of another type between a human and an ai turn was
\* parsed to the two messages, in order.
C28_Witness ==
    /\ parsed_messages.called
    /\ Len(session_history) = 3
    /\ session_history[1] = [type |-> "human", content |-> "q"]
    /\ session_history[2] = [type |-> "system"]
    /\ session_history[3] = [type |-> "ai", content |-> "a"]
    /\ Len(parsed_messages.messages) = 2
    /\ parsed_messages.messages[2].role = "ai"
=============================================================================
